---- MODULE Spec2Model ----
(***************************************************************************)
(* Model of the metastone routing hack of cluster-api-provider-kubevirt:   *)
(*   - package metastonehack: getManagerGWFromDefaultTenant,               *)
(*     checkAndAddRoute, getInterfaceNameByIP,                             *)
(*     disableTXOffloadAndEnableMTUProbing;                                *)
(*   - package workloadcluster: GenerateWorkloadClusterClient and          *)
(*     GenerateWorkloadClusterK8sClient (marker file + inline route add).  *)
(*                                                                         *)
(* Strings are sequences of one-character strings, so that fmt.Sprintf,    *)
(* net.IP.String and strings.Contains are computed, not assumed.           *)
(* The listing of `ip route show` is modelled as one line per route,       *)
(* "<dst>/32 via <gw> dev net1", the shape checkAndAddRoute searches for.  *)
(***************************************************************************)
EXTENDS Integers, Sequences, FiniteSets, TLC

VARIABLES routeTable, marker, addLog, txOff, mtuProbing, last

vars == <<routeTable, marker, addLog, txOff, mtuProbing, last>>

(***************************************************************************)
(* Bounds                                                                  *)
(***************************************************************************)
\* largest number of TenantApiServer items the list call returns
MaxItems == 2
\* largest number of host interfaces netlink.LinkList returns
MaxIfaces == 2

(***************************************************************************)
(* Strings                                                                 *)
(***************************************************************************)
DigitChars == <<"0", "1", "2", "3", "4", "5", "6", "7", "8", "9">>

RECURSIVE Itoa(_)
Itoa(n) ==
    IF n < 10 THEN <<DigitChars[n + 1]>>
    ELSE Itoa(n \div 10) \o <<DigitChars[(n % 10) + 1]>>

\* net.IP.String of a 4-byte address: dotted quad
IPString(ip) ==
    Itoa(ip[1]) \o <<".">> \o Itoa(ip[2]) \o <<".">> \o Itoa(ip[3]) \o <<".">> \o Itoa(ip[4])

\* strings.Contains
Contains(s, substr) ==
    \E i \in 0..(Len(s) - Len(substr)) :
        \A j \in 1..Len(substr) : s[i + j] = substr[j]

EmptyStr == <<>>

\* fmt.Sprintf("%s/32", apiServersIP)
RouteToCheck(apiServersIP) == apiServersIP \o <<"/", "3", "2">>

(***************************************************************************)
(* Inputs                                                                  *)
(***************************************************************************)
\* control-plane endpoint hosts; the text of the first is a suffix of the second
DstIPs == {<<1, 2, 3, 4>>, <<11, 2, 3, 4>>}
\* gateways; the text of the first is a prefix of the second
GwIPs == {<<10, 0, 0, 2>>, <<10, 0, 0, 25>>}

DstStrs == {IPString(d) : d \in DstIPs}
GwStrs == {IPString(g) : g \in GwIPs}

NoErr == "nil"

(***************************************************************************)
(* Kernel routing table, as `ip` sees it                                   *)
(***************************************************************************)
RouteLine(r) ==
    r.dst \o <<"/", "3", "2">> \o <<" ", "v", "i", "a", " ">> \o r.gw
          \o <<" ", "d", "e", "v", " ", "n", "e", "t", "1", " ", "\n">>

RECURSIVE IpRouteShow(_)
\* combined output of `ip route show`
IpRouteShow(table) ==
    IF table = <<>> THEN <<>>
    ELSE RouteLine(Head(table)) \o IpRouteShow(Tail(table))

HasRouteTo(table, dst) == \E i \in 1..Len(table) : table[i].dst = dst

\* `ip route add <route> via <gw>` can exit 0 only when the kernel holds no
\* route to that destination yet (EEXIST otherwise); it may fail anyway.
IpRouteAddExits(table, dst) ==
    IF HasRouteTo(table, dst) THEN {FALSE} ELSE {TRUE, FALSE}

IpRouteAdd(table, dst, gw, ok) ==
    IF ok THEN Append(table, [dst |-> dst, gw |-> gw]) ELSE table

(***************************************************************************)
(* checkAndAddRoute                                                        *)
(***************************************************************************)
RouteDecisionAlwaysAdd(outputStr, routeToCheck, managerGW) ==
    IF Contains(outputStr, routeToCheck) /\ ~Contains(outputStr, managerGW)
    THEN "conflict"
    ELSE "add"

\* the three cases of checkAndAddRoute
RouteDecision(outputStr, routeToCheck, managerGW) ==
    IF Contains(outputStr, routeToCheck) /\ Contains(outputStr, managerGW)
    THEN "exists"
    ELSE IF Contains(outputStr, routeToCheck) /\ ~Contains(outputStr, managerGW)
    THEN "conflict"
    ELSE "add"

CheckAndAddRoute(apiServersIP, managerGW) ==
    \E showOk \in BOOLEAN :
        LET routeToCheck == RouteToCheck(apiServersIP)
            outputStr == IpRouteShow(routeTable)
            decision == RouteDecision(outputStr, routeToCheck, managerGW)
            repeat == /\ last.op = "checkAndAddRoute"
                      /\ last.err = NoErr
                      /\ last.dst = apiServersIP
                      /\ last.gw = managerGW
            hadRoute == \E i \in 1..Len(routeTable) :
                            routeTable[i].dst = apiServersIP
            otherGw == \E i \in 1..Len(routeTable) :
                            /\ routeTable[i].dst = apiServersIP
                            /\ routeTable[i].gw # managerGW
        IN  IF ~showOk
            THEN /\ last' = [op |-> "checkAndAddRoute", dst |-> apiServersIP,
                             gw |-> managerGW, branch |-> "none",
                             cmds |-> <<"ip route show">>,
                             err |-> "ShowFailed", repeat |-> repeat,
                             hadRoute |-> hadRoute, otherGw |-> otherGw,
                             changed |-> FALSE]
                 /\ UNCHANGED <<routeTable, marker, addLog, txOff, mtuProbing>>
            ELSE IF decision = "exists"
            THEN /\ last' = [op |-> "checkAndAddRoute", dst |-> apiServersIP,
                             gw |-> managerGW, branch |-> "exists",
                             cmds |-> <<"ip route show">>,
                             err |-> NoErr, repeat |-> repeat,
                             hadRoute |-> hadRoute, otherGw |-> otherGw,
                             changed |-> FALSE]
                 /\ UNCHANGED <<routeTable, marker, addLog, txOff, mtuProbing>>
            ELSE IF decision = "conflict"
            THEN /\ last' = [op |-> "checkAndAddRoute", dst |-> apiServersIP,
                             gw |-> managerGW, branch |-> "conflict",
                             cmds |-> <<"ip route show">>,
                             err |-> "RouteConflict", repeat |-> repeat,
                             hadRoute |-> hadRoute, otherGw |-> otherGw,
                             changed |-> FALSE]
                 /\ UNCHANGED <<routeTable, marker, addLog, txOff, mtuProbing>>
            ELSE \E addOk \in IpRouteAddExits(routeTable, apiServersIP) :
                 /\ routeTable' = IpRouteAdd(routeTable, apiServersIP, managerGW, addOk)
                 /\ last' = [op |-> "checkAndAddRoute", dst |-> apiServersIP,
                             gw |-> managerGW, branch |-> "add",
                             cmds |-> <<"ip route show", "ip route add">>,
                             err |-> IF addOk THEN NoErr ELSE "RouteAddFailed",
                             repeat |-> repeat,
                             hadRoute |-> hadRoute, otherGw |-> otherGw,
                             changed |-> addOk]
                 /\ UNCHANGED <<marker, addLog, txOff, mtuProbing>>

CheckAndAddRouteCall ==
    \E d \in DstStrs, g \in GwStrs : CheckAndAddRoute(d, g)

(***************************************************************************)
(* Initial state: a host with no /32 routes, no marker files, TX offload   *)
(* on and MTU probing off.                                                 *)
(***************************************************************************)
NoFile == [exists |-> FALSE, content |-> EmptyStr]

InitHost ==
    /\ routeTable = <<>>
    /\ marker = [d \in DstStrs |-> NoFile]
    /\ addLog = [d \in DstStrs |-> [issued |-> "never", ok |-> FALSE]]
    /\ txOff = {}
    /\ mtuProbing = FALSE

Init ==
    /\ InitHost
    /\ last = [op |-> "none"]

(***************************************************************************)
(* disableTXOffloadAndEnableMTUProbing                                     *)
(***************************************************************************)
IfaceNames == <<"lo", "eth0", "net1", "net2">>

\* `/usr/sbin/ethtool --offload <iface> tx off`
Ethtool(offSet, interfaceName, ok) ==
    IF ok THEN offSet \cup {interfaceName} ELSE offSet

\* `/usr/sbin/sysctl -w net.ipv4.tcp_mtu_probing=1`
Sysctl(probing, ok) == IF ok THEN TRUE ELSE probing

\* whether disableTXOffloadAndEnableMTUProbing reaches the sysctl command
TunerReachesSysctl(ethOk) == ethOk

DisableTXOffloadAndEnableMTUProbing(interfaceName) ==
    \E ethOk \in BOOLEAN, sysOk \in BOOLEAN :
        IF ~TunerReachesSysctl(ethOk)
        THEN /\ txOff' = Ethtool(txOff, interfaceName, ethOk)
             /\ last' = [op |-> "disableTXOffloadAndEnableMTUProbing",
                         iface |-> interfaceName, cmds |-> <<"ethtool">>,
                         ethOk |-> ethOk, err |-> "OffloadDisableFailed"]
             /\ UNCHANGED <<routeTable, marker, addLog, mtuProbing>>
        ELSE /\ txOff' = Ethtool(txOff, interfaceName, ethOk)
             /\ mtuProbing' = Sysctl(mtuProbing, sysOk)
             /\ last' = [op |-> "disableTXOffloadAndEnableMTUProbing",
                         iface |-> interfaceName,
                         cmds |-> <<"ethtool", "sysctl">>,
                         ethOk |-> ethOk,
                         err |-> IF ~ethOk THEN "OffloadDisableFailed"
                                 ELSE IF sysOk THEN NoErr
                                 ELSE "MTUProbingEnableFailed"]
             /\ UNCHANGED <<routeTable, marker, addLog>>

DisableTXOffloadAndEnableMTUProbingCall ==
    \E i \in 1..Len(IfaceNames) : DisableTXOffloadAndEnableMTUProbing(IfaceNames[i])

(***************************************************************************)
(* GenerateWorkloadClusterClient / GenerateWorkloadClusterK8sClient        *)
(***************************************************************************)
StatNeverFinds(markers, apiserverip) == FALSE

\* os.Stat(filename): filefd != nil && err == nil
StatFinds(markers, apiserverip) == markers[apiserverip].exists

\* os.WriteFile(filename, []byte(msmngapisever), os.ModePerm); the result is dropped
WriteFile(markers, apiserverip, content, ok) ==
    IF ok THEN [markers EXCEPT ![apiserverip] = [exists |-> TRUE, content |-> content]]
    ELSE markers

\* history of the `ip route add` commands the Generate* functions issued
\* for one destination: never, once or repeatedly, and the exit status of
\* the latest one
LogAdd(entry, addOk) ==
    [issued |-> IF entry.issued = "never" THEN "once" ELSE "repeatedly",
     ok |-> addOk]

\* the `if ctx.KubevirtCluster.Labels != nil { ... }` block shared by both functions
ConfigureHost(opName, hasLabels, msmngapisever, apiserverip, finalErr) ==
    IF ~(hasLabels /\ msmngapisever # EmptyStr /\ apiserverip # EmptyStr)
    THEN /\ last' = [op |-> opName, dst |-> EmptyStr, gw |-> EmptyStr,
                     found |-> FALSE, entered |-> FALSE, cmds |-> <<>>,
                     err |-> finalErr]
         /\ UNCHANGED <<routeTable, marker, addLog, txOff, mtuProbing>>
    ELSE IF StatFinds(marker, apiserverip)
    THEN /\ last' = [op |-> opName, dst |-> apiserverip, gw |-> msmngapisever,
                     found |-> TRUE, entered |-> TRUE, cmds |-> <<>>,
                     err |-> finalErr]
         /\ UNCHANGED <<routeTable, marker, addLog, txOff, mtuProbing>>
    ELSE \E addOk \in IpRouteAddExits(routeTable, apiserverip),
            writeOk \in BOOLEAN, ethOk \in BOOLEAN, sysOk \in BOOLEAN :
         /\ routeTable' = IpRouteAdd(routeTable, apiserverip, msmngapisever, addOk)
         /\ addLog' = [addLog EXCEPT ![apiserverip] = LogAdd(@, addOk)]
         /\ marker' = WriteFile(marker, apiserverip, msmngapisever, writeOk)
         /\ txOff' = Ethtool(txOff, "net1", ethOk)
         /\ mtuProbing' = Sysctl(mtuProbing, sysOk)
         /\ last' = [op |-> opName, dst |-> apiserverip, gw |-> msmngapisever,
                     found |-> FALSE, entered |-> TRUE,
                     cmds |-> <<"ip route add", "ethtool", "sysctl">>,
                     err |-> finalErr]

GenerateClient(opName) ==
    \E kubeOk \in BOOLEAN :
        IF ~kubeOk
        THEN /\ last' = [op |-> opName, dst |-> EmptyStr, gw |-> EmptyStr,
                         found |-> FALSE, entered |-> FALSE, cmds |-> <<>>,
                         err |-> "KubeconfigFetchFailed"]
             /\ UNCHANGED <<routeTable, marker, addLog, txOff, mtuProbing>>
        ELSE \E restOk \in BOOLEAN :
            IF ~restOk
            THEN /\ last' = [op |-> opName, dst |-> EmptyStr, gw |-> EmptyStr,
                             found |-> FALSE, entered |-> FALSE, cmds |-> <<>>,
                             err |-> "RESTConfigFailed"]
                 /\ UNCHANGED <<routeTable, marker, addLog, txOff, mtuProbing>>
            ELSE \E clientOk \in BOOLEAN, hasLabels \in BOOLEAN,
                    msmngapisever \in GwStrs \cup {EmptyStr},
                    apiserverip \in DstStrs \cup {EmptyStr} :
                    ConfigureHost(opName, hasLabels, msmngapisever, apiserverip,
                                  IF clientOk THEN NoErr ELSE "ClientCreateFailed")

GenerateWorkloadClusterClient == GenerateClient("GenerateWorkloadClusterClient")

GenerateWorkloadClusterK8sClient == GenerateClient("GenerateWorkloadClusterK8sClient")

GenOps == {"GenerateWorkloadClusterClient", "GenerateWorkloadClusterK8sClient"}

(***************************************************************************)
(* net.IP values: n is the slice length (0 for nil, 4 or 16); for a        *)
(* 16-byte value v4in6 says whether the first twelve bytes are the         *)
(* IPv4-in-IPv6 prefix ::ffff:0:0/96, and low holds the last four bytes.   *)
(***************************************************************************)
NilIP == [n |-> 0, v4in6 |-> FALSE, low |-> <<>>]

OctetsInRange(b) == \A i \in 1..4 : b[i] >= 0 /\ b[i] <= 255

\* address length in bits that net.ParseCIDR compares the prefix length with
BitLen(form) == IF form = "v4" THEN 32 ELSE 128

\* net.ParseIP / netip.ParseAddr followed by As16, on a text of the given form:
\* "v4" a.b.c.d, "v4in6" ::ffff:a.b.c.d, "v6" any other IPv6 text
ParseAddr(form, b) ==
    IF form \in {"v4", "v4in6"} /\ OctetsInRange(b)
    THEN [n |-> 16, v4in6 |-> TRUE, low |-> b]
    ELSE IF form = "v6" /\ OctetsInRange(b)
    THEN [n |-> 16, v4in6 |-> FALSE, low |-> b]
    ELSE NilIP

\* first result of net.ParseCIDR (the address as written, not the network)
ParseCIDR(subnet) ==
    IF subnet.form \in {"v4", "v4in6", "v6"}
       /\ subnet.plen >= 0 /\ subnet.plen <= BitLen(subnet.form)
    THEN ParseAddr(subnet.form, subnet.b)
    ELSE NilIP

\* net.IP.To4
To4(ip) ==
    IF ip.n = 4 THEN ip
    ELSE IF ip.n = 16 /\ ip.v4in6 THEN [n |-> 4, v4in6 |-> FALSE, low |-> ip.low]
    ELSE NilIP

IPEqualLowOnly(x, y) == x.n # 0 /\ y.n # 0 /\ x.low = y.low

\* net.IP.Equal
IPEqual(x, y) ==
    IF x.n = y.n THEN x = y
    ELSE IF x.n = 4 /\ y.n = 16 THEN y.v4in6 /\ x.low = y.low
    ELSE IF x.n = 16 /\ y.n = 4 THEN x.v4in6 /\ x.low = y.low
    ELSE FALSE

(***************************************************************************)
(* getManagerGWFromDefaultTenant                                           *)
(***************************************************************************)
EmptySubnet == [form |-> "empty", b |-> <<0, 0, 0, 0>>, plen |-> 0]
GarbageSubnet == [form |-> "garbage", b |-> <<0, 0, 0, 0>>, plen |-> 0]

SubnetAddrs ==
    {<<10, 4, 0, 0>>, <<10, 4, 5, 7>>, <<192, 168, 10, 0>>, <<10, 256, 0, 0>>}
SubnetPlens == {16, 24, 33, 120}

\* Spec.Subnet values of a TenantApiServer item
Subnets ==
    {EmptySubnet, GarbageSubnet} \cup
    [form : {"v4", "v4in6", "v6"}, b : SubnetAddrs, plen : SubnetPlens]

ItemLists ==
    UNION {[1..n -> Subnets] : n \in 0..MaxItems}

ItemCountOKAtLeastOne(items) == Len(items) >= 1

\* len(tenantApiServerList.Items) == 1
ItemCountOK(items) == Len(items) = 1

GetManagerGWFromDefaultTenant(listOk, items) ==
    IF ~listOk
    THEN [gw |-> EmptyStr, err |-> "ListFailed", inspected |-> FALSE]
    ELSE IF ~ItemCountOK(items)
    THEN [gw |-> EmptyStr, err |-> "NotExactlyOne", inspected |-> FALSE]
    ELSE LET defaultTenantsSubnet == items[1]
             parsed == ParseCIDR(defaultTenantsSubnet)
             managerGW == To4(parsed)
         IN  IF defaultTenantsSubnet.form = "empty"
             THEN [gw |-> EmptyStr, err |-> "SubnetEmpty", inspected |-> TRUE]
             ELSE IF parsed = NilIP
             THEN [gw |-> EmptyStr, err |-> "InvalidSubnet", inspected |-> TRUE]
             ELSE IF managerGW = NilIP
             THEN [gw |-> EmptyStr, err |-> "NotIPv4", inspected |-> TRUE]
             ELSE [gw |-> IPString([managerGW.low EXCEPT ![4] = 2]),
                   err |-> NoErr, inspected |-> TRUE]

\* a call in flight: the outcome of runtimeClient.List is its input
ResolverCalls ==
    [op : {"call getManagerGWFromDefaultTenant"}, listOk : BOOLEAN,
     items : ItemLists]

GetManagerGWCall ==
    /\ last.op = "call getManagerGWFromDefaultTenant"
    /\ LET r == GetManagerGWFromDefaultTenant(last.listOk, last.items)
       IN  last' = [op |-> "getManagerGWFromDefaultTenant",
                    listOk |-> last.listOk, items |-> last.items,
                    gw |-> r.gw, err |-> r.err, inspected |-> r.inspected]
    /\ UNCHANGED <<routeTable, marker, addLog, txOff, mtuProbing>>

(***************************************************************************)
(* getInterfaceNameByIP                                                    *)
(***************************************************************************)
\* the ip argument, by the form of its text
IPTexts ==
    {[form |-> "v4", b |-> <<10, 0, 0, 5>>],
     [form |-> "v4in6", b |-> <<10, 0, 0, 5>>],
     [form |-> "v6", b |-> <<10, 0, 0, 5>>],
     [form |-> "v4", b |-> <<10, 0, 0, 9>>],
     [form |-> "v4", b |-> <<10, 0, 0, 256>>],
     [form |-> "garbage", b |-> <<0, 0, 0, 0>>]}

\* addresses netlink.AddrList reports: 4-byte IPv4, 16-byte IPv6
HostAddrs ==
    {[n |-> 4, v4in6 |-> FALSE, low |-> <<10, 0, 0, 5>>],
     [n |-> 4, v4in6 |-> FALSE, low |-> <<10, 0, 0, 6>>],
     [n |-> 16, v4in6 |-> FALSE, low |-> <<10, 0, 0, 5>>]}

\* what netlink.AddrList returns for one link: its addresses, or an error
AddrListResults ==
    [addrs : SUBSET HostAddrs, addrErr : {FALSE}] \cup
    [addrs : {{}}, addrErr : {TRUE}]

\* host snapshots: netlink.LinkList order, names by position
IfaceLists ==
    UNION {[1..n -> AddrListResults] : n \in 0..MaxIfaces}

RECURSIVE ScanInterfaces(_, _, _)
\* the `for _, iface := range interfaces` loop, from index i on
ScanInterfaces(interfaces, i, targetIP) ==
    IF i > Len(interfaces)
    THEN [name |-> "", err |-> "InterfaceNotFound"]
    ELSE IF interfaces[i].addrErr
    THEN [name |-> "", err |-> "AddrListFailed"]
    ELSE IF \E addr \in interfaces[i].addrs : IPEqual(addr, targetIP)
    THEN [name |-> IfaceNames[i], err |-> NoErr]
    ELSE ScanInterfaces(interfaces, i + 1, targetIP)

GetInterfaceNameByIP(ip, linkOk, interfaces) ==
    LET targetIP == ParseAddr(ip.form, ip.b)
    IN  IF targetIP = NilIP
        THEN [name |-> "", err |-> "InvalidIP", enumerated |-> FALSE]
        ELSE IF ~linkOk
        THEN [name |-> "", err |-> "LinkListFailed", enumerated |-> TRUE]
        ELSE LET r == ScanInterfaces(interfaces, 1, targetIP)
             IN  [name |-> r.name, err |-> r.err, enumerated |-> TRUE]

\* a call in flight: its argument and the host snapshot netlink will report
LocatorCalls ==
    [op : {"call getInterfaceNameByIP"}, ip : IPTexts, linkOk : BOOLEAN,
     interfaces : IfaceLists]

GetInterfaceNameByIPCall ==
    /\ last.op = "call getInterfaceNameByIP"
    /\ LET r == GetInterfaceNameByIP(last.ip, last.linkOk, last.interfaces)
       IN  last' = [op |-> "getInterfaceNameByIP", ip |-> last.ip,
                    linkOk |-> last.linkOk, interfaces |-> last.interfaces,
                    name |-> r.name, err |-> r.err,
                    enumerated |-> r.enumerated]
    /\ UNCHANGED <<routeTable, marker, addLog, txOff, mtuProbing>>

(***************************************************************************)
(* Specifications                                                          *)
(***************************************************************************)
\* package workloadcluster: the two client constructors on one host
Next ==
    \/ GenerateWorkloadClusterClient
    \/ GenerateWorkloadClusterK8sClient

Spec == Init /\ [][Next]_vars

\* metastonehack.checkAndAddRoute called repeatedly on one host
NextRoute == CheckAndAddRouteCall

SpecRoute == Init /\ [][NextRoute]_vars

\* metastonehack.disableTXOffloadAndEnableMTUProbing called repeatedly on one host
NextTuner == DisableTXOffloadAndEnableMTUProbingCall

SpecTuner == Init /\ [][NextTuner]_vars

\* one call of metastonehack.getManagerGWFromDefaultTenant on any tenant list
NextResolver == GetManagerGWCall

InitResolver == InitHost /\ last \in ResolverCalls

SpecResolver == InitResolver /\ [][NextResolver]_vars

\* one call of metastonehack.getInterfaceNameByIP on any host snapshot
NextLocator == GetInterfaceNameByIPCall

InitLocator == InitHost /\ last \in LocatorCalls

SpecLocator == InitLocator /\ [][NextLocator]_vars

InCmds(c) == \E i \in 1..Len(last.cmds) : last.cmds[i] = c

IsRouteCall == last.op = "checkAndAddRoute" /\ last.branch # "none"

IsGenCall == last.op \in GenOps /\ last.entered

(***************************************************************************)
(* Properties of checkAndAddRoute (SpecRoute)                              *)
(***************************************************************************)
\* C2: when the table holds dst/32 via another gateway, the call fails with
\* RouteConflict and issues no add (the table is left as it was).
C2_ConflictIsReported ==
    (IsRouteCall /\ last.otherGw) =>
        (last.err = "RouteConflict" /\ ~InCmds("ip route add") /\ ~last.changed)

C4_AbsentRouteIsAdded ==
    (IsRouteCall /\ ~last.hadRoute) =>
        (/\ InCmds("ip route add")
         /\ (last.err = NoErr =>
                \E i \in 1..Len(routeTable) :
                    routeTable[i] = [dst |-> last.dst, gw |-> last.gw]))

(***************************************************************************)
(* Properties of disableTXOffloadAndEnableMTUProbing (SpecTuner)           *)
(***************************************************************************)
\* C5: when ethtool fails, sysctl is still run.
C5_SysctlRunsAfterEthtoolFailure ==
    (last.op = "disableTXOffloadAndEnableMTUProbing" /\ ~last.ethOk) =>
        InCmds("sysctl")

(***************************************************************************)
(* Properties of the Generate* functions (Spec)                            *)
(***************************************************************************)
\* C6: a marker file exists only if the route add issued for its
\* destination by the call that wrote it exited with status 0.
C6_MarkerImpliesAddSucceeded ==
    \A d \in DstStrs :
        marker[d].exists =>
            (addLog[d].issued # "never" /\ addLog[d].ok)

\* C10 as stated: with the marker present nothing is run, and over all the
\* calls for one destination the route add is issued at most once.
C10_AddIssuedAtMostOnce ==
    /\ (IsGenCall /\ last.found) => last.cmds = <<>>
    /\ \A d \in DstStrs : addLog[d].issued \in {"never", "once"}

\* C10 amended: a call that finds the marker for its destination runs no
\* command and changes neither the marker, the routing table nor the host
\* tuning, whatever the label and the marker content are; a route add is
\* issued only by a call that finds the marker absent.
C10_MarkerPresentMeansNoEffect ==
    [][ /\ (last'.op \in GenOps /\ last'.entered /\ marker[last'.dst].exists) =>
            (/\ last'.cmds = <<>>
             /\ UNCHANGED <<routeTable, marker, addLog, txOff, mtuProbing>>)
        /\ (\E i \in 1..Len(last'.cmds) : last'.cmds[i] = "ip route add") =>
            (last'.op \in GenOps /\ last'.entered /\ ~marker[last'.dst].exists)
      ]_vars

C10_Witness ==
    /\ IsGenCall
    /\ last.found
    /\ last.gw # marker[last.dst].content
    /\ addLog[last.dst].issued = "once"
    /\ \E i \in 1..Len(routeTable) :
           routeTable[i].dst = last.dst /\ routeTable[i].gw # last.gw

(***************************************************************************)
(* Properties of getManagerGWFromDefaultTenant (SpecResolver)              *)
(***************************************************************************)
IsResolverCall == last.op = "getManagerGWFromDefaultTenant"

\* the call saw exactly one tenant resource, with a non-empty subnet
SingleSubnet ==
    IsResolverCall /\ last.listOk /\ Len(last.items) = 1
    /\ last.items[1].form # "empty"

\* a.b.c.d/len with octets in 0..255 and len in 0..32
IsIPv4CIDR(subnet) ==
    subnet.form = "v4" /\ OctetsInRange(subnet.b) /\ subnet.plen \in 0..32

\* any well-formed CIDR text, of either family
IsWellFormedCIDR(subnet) ==
    /\ subnet.form \in {"v4", "v4in6", "v6"}
    /\ OctetsInRange(subnet.b)
    /\ subnet.plen \in 0..(IF subnet.form = "v4" THEN 32 ELSE 128)

Pow2(k) == 2 ^ k

\* number of mask bits that fall into octet i (1..4) of a /plen mask
MaskBits(plen, i) ==
    LET k == plen - 8 * (i - 1)
    IN  IF k < 0 THEN 0 ELSE IF k > 8 THEN 8 ELSE k

\* the network address of the IPv4 CIDR b/plen
NetworkAddress(b, plen) ==
    [i \in 1..4 |->
        LET h == Pow2(8 - MaskBits(plen, i)) IN (b[i] \div h) * h]

IsConfigurationError(e) == e \in {"NotExactlyOne", "SubnetEmpty"}

IsInvalidSubnet(e) == e \in {"InvalidSubnet", "NotIPv4"}

\* C1: for a valid IPv4 CIDR the resolver returns the network address of
\* the CIDR with its last octet set to 2.
C1_GatewayIsNetworkAddressDot2 ==
    (SingleSubnet /\ IsIPv4CIDR(last.items[1])) =>
        (/\ last.err = NoErr
         /\ last.gw = IPString([NetworkAddress(last.items[1].b, last.items[1].plen)
                                    EXCEPT ![4] = 2]))

\* C7: for a subnet text that is not a valid IPv4 CIDR (malformed, IPv6, or
\* IPv4-mapped IPv6) the resolver fails with InvalidSubnet and returns no gateway.
C7_NonIPv4IsRejected ==
    (SingleSubnet /\ ~IsIPv4CIDR(last.items[1])) =>
        (IsInvalidSubnet(last.err) /\ last.gw = EmptyStr)

IsLocatorCall == last.op = "getInterfaceNameByIP"

\* an address, whatever its encoding: family and the bytes that tell it apart
CanonAddr(a) ==
    IF a.n = 4 \/ a.v4in6 THEN <<"v4", a.low>> ELSE <<"v6", a.low>>

CanonText(ip) ==
    IF ip.form \in {"v4", "v4in6"} THEN <<"v4", ip.b>> ELSE <<"v6", ip.b>>

IsParseableIP(ip) == ip.form \in {"v4", "v4in6", "v6"} /\ OctetsInRange(ip.b)

Owners ==
    {i \in 1..Len(last.interfaces) :
        \E a \in last.interfaces[i].addrs : CanonAddr(a) = CanonText(last.ip)}

FailedLinks ==
    {i \in 1..Len(last.interfaces) : last.interfaces[i].addrErr}

\* C9: an unparseable ip fails with InvalidIP before the links are listed;
\* otherwise the first link, in enumeration order, that owns the address is
\* returned; with no owner the lookup fails with InterfaceNotFound; a link
\* whose addresses cannot be listed and that comes before every owner
\* aborts the lookup.
C9_FirstOwnerWins ==
    IsLocatorCall =>
        (/\ ~IsParseableIP(last.ip) =>
                (last.err = "InvalidIP" /\ ~last.enumerated /\ last.name = "")
         /\ (IsParseableIP(last.ip) /\ last.linkOk) =>
                (/\ \A k \in Owners :
                        (/\ \A j \in Owners : k <= j
                         /\ \A j \in FailedLinks : k < j)
                        => (last.err = NoErr /\ last.name = IfaceNames[k])
                 /\ (Owners = {} /\ FailedLinks = {}) =>
                        (last.err = "InterfaceNotFound" /\ last.name = "")
                 /\ (\E j \in FailedLinks : \A k \in Owners : j < k) =>
                        (last.err = "AddrListFailed" /\ last.name = "")))

C9_Witness ==
    /\ IsLocatorCall
    /\ last.err = NoErr
    /\ Len(last.interfaces) = 2
    /\ last.name = IfaceNames[2]
    /\ last.ip.form = "v4in6"
    /\ \E a \in last.interfaces[1].addrs : a.low = last.ip.b
    /\ Owners = {2}
====
